---- MODULE Spec2Model ----
(***************************************************************************)
(* PicoScope streaming GUI: the controller (MainWindow, GUI thread), the   *)
(* producer (PicoScopeWorker.run on a QThread) and the queued signals      *)
(* between them.                                                           *)
(*                                                                         *)
(* Units: times are kept in microseconds (1e-3 ms), so the source's        *)
(* `x * 1e-3` factors are exact integers here.                             *)
(*                                                                         *)
(* Threads: the GUI thread is either in its event loop (mainpc = "loop")   *)
(* or blocked inside QThread.wait() (mainpc = "wait").  Signals of a       *)
(* worker are queued connections into the GUI thread: emit appends to      *)
(* `queue`, the event loop delivers the head.  Nothing in the source       *)
(* disconnects a worker's signals: an entry stays queued until it is       *)
(* delivered, or until start_acquisition frees the worker that sent it.    *)
(* QMessageBox dialogs return at once.  `msg` is the dialog shown and       *)
(* `sheet` the workbook built by DataSaver in the handler that ran last    *)
(* ("none" / NoFile when it showed or built none).  The enabled/disabled   *)
(* state of the buttons is not modelled, the commands can be invoked in    *)
(* every state.                                                            *)
(*                                                                         *)
(* An exception that leaves a Python slot is either fatal to the process   *)
(* (PyQt5 >= 5.5 without an excepthook) or printed and dropped: both       *)
(* outcomes are kept (`aborted`).  closeEvent, a stop_acquisition followed  *)
(* by the end of the process, is left out.                                 *)
(***************************************************************************)
EXTENDS Integers, Sequences, FiniteSets, TLC

\* ------------------------------------------------------------- bounds
\* number of acquisitions started in one behaviour
MaxRuns == 2
\* number of get_data calls the workers make in one behaviour
MaxFetches == 2

\* ------------------------------------------------ program constants
plot_window_ms == 200
InitialSampleIntervalUs == 10

\* Sample intervals (microseconds) the user enters: they give the display
\* window the capacities 2 and 0.
IntervalChoices == {100000, 400000}

\* Max Samples (samples per fetch) the user enters
MaxSamplesChoices == {2}

Runs == 1..MaxRuns

VARIABLES
    \* MainWindow fields
    is_running, all_data, total_samples_acquired, sample_interval_us,
    deque_size, time_deque, chA_deque, chB_deque, pico_worker, labels, msg,
    \* GUI thread
    mainpc, queue,
    \* PicoScopeWorker objects and their QThreads, one per started run
    workers,
    \* device: serial numbers of the next sample and the next fetch
    nextSample, nextFetch,
    \* process killed by an unhandled exception in a slot
    aborted,
    \* DataSaver: the workbook built by the handler that ran last
    sheet,
    \* history: raw samples handed to update_plot since all_data was last reset
    delivered

ctl == <<is_running, all_data, total_samples_acquired, sample_interval_us,
         deque_size, time_deque, chA_deque, chB_deque, pico_worker, labels>>
device == <<nextSample, nextFetch>>
vars == <<ctl, msg, mainpc, queue, workers, device, aborted, delivered, sheet>>

\* --------------------------------------------------------- helpers
RECURSIVE SeqOf(_, _)
SeqOf(x, n) == IF n = 0 THEN <<>> ELSE <<x>> \o SeqOf(x, n - 1)

RECURSIVE Serials(_, _)
Serials(from, n) == IF n = 0 THEN <<>> ELSE <<from>> \o Serials(from + 1, n - 1)

Neg(s) == [i \in 1..Len(s) |-> 0 - s[i]]

LastN(s, n) == IF Len(s) <= n THEN s ELSE SubSeq(s, Len(s) - n + 1, Len(s))

\* mutant: a full buffer drops the new elements instead of the oldest
DequeExtend_KeepOldest(d, xs, maxlen) ==
    IF Len(d \o xs) <= maxlen THEN d \o xs ELSE SubSeq(d \o xs, 1, maxlen)

\* collections.deque(maxlen=...).extend
DequeExtend(d, xs, maxlen) == LastN(d \o xs, maxlen)

\* int(plot_window_ms / (sample_interval_us * 1e-3))
DequeSize(interval_us) == (plot_window_ms * 1000) \div interval_us

\* ---------------------------------------------------------- worker
NoWorker ==
    [pc |-> "none", running |-> FALSE, handle |-> FALSE, devOpen |-> FALSE,
     streaming |-> FALSE, quit |-> FALSE, sample_interval_us |-> 0,
     max_samples |-> 0, log |-> <<>>, nData |-> 0, nFetch |-> 0,
     nTeardown |-> 0, connectFailed |-> FALSE, streamFailed |-> FALSE,
     fetchFailed |-> FALSE]

\* PicoScopeWorker.__init__, then moveToThread and QThread.start
NewWorker(interval_us, max_samples) ==
    [NoWorker EXCEPT !.pc = "run", !.running = TRUE,
                     !.sample_interval_us = interval_us,
                     !.max_samples = max_samples]

\* signal.emit over a queued connection
Emit(q, sig) == Append(q, sig)

Logged(w, what) == [w EXCEPT !.log = Append(@, what)]

\* PicoScopeWorker.disconnect
disconnect(w) ==
    IF w.handle
    THEN [w EXCEPT !.streaming = FALSE, !.devOpen = FALSE,
                   !.nTeardown = @ + 1, !.log = Append(@, "teardown")]
    ELSE w

\* PicoScopeWorker.stop
stop(w) == [w EXCEPT !.running = FALSE]

\* an exception leaves run(): the slot call ends, the thread goes on to
\* QThread.exec() unless the process is killed
Raised(w) == [w EXCEPT !.pc = "exec"]

\* save_to_excel was not called
NoFile == [header |-> <<>>, rows |-> <<>>]

Init ==
    /\ is_running = FALSE
    /\ all_data = <<>>
    /\ total_samples_acquired = 0
    /\ sample_interval_us = InitialSampleIntervalUs
    /\ deque_size = DequeSize(InitialSampleIntervalUs)
    /\ time_deque = <<>>
    /\ chA_deque = <<>>
    /\ chB_deque = <<>>
    /\ pico_worker = 0
    /\ labels = [time |-> 0, chA |-> 0, chB |-> 0, samples |-> 0]
    /\ msg = "none"
    /\ mainpc = "loop"
    /\ queue = <<>>
    /\ workers = [r \in Runs |-> NoWorker]
    /\ nextSample = 1
    /\ nextFetch = 1
    /\ aborted = FALSE
    /\ delivered = <<>>
    /\ sheet = NoFile

\* ------------------------------------------------------ controller
\* start_acquisition lines 148-149 overwrite self.pico_thread and
\* self.pico_worker: the objects of a run whose thread has finished are freed
Released(ws, cur) ==
    IF cur = 0 THEN ws
    ELSE IF ws[cur].pc = "exited" THEN [ws EXCEPT ![cur] = NoWorker] ELSE ws

Sig(kind, run, message, t, a, b) ==
    [kind |-> kind, run |-> run, message |-> message, time |-> t, chA |-> a, chB |-> b]

\* Signals of the released worker that are still queued: the source never
\* disconnects them; whether the binding still delivers the queued calls of
\* a sender that has been freed is not decided by the source, so both
\* outcomes are kept
RECURSIVE Forgotten(_, _)
Forgotten(q, run) ==
    IF q = <<>> THEN <<>>
    ELSE IF Head(q).run = run THEN Forgotten(Tail(q), run)
    ELSE <<Head(q)>> \o Forgotten(Tail(q), run)

\* mutant: the is_running test is missing
StartRejected_Never == FALSE

\* start_acquisition line 123: the guard that rejects a second start
StartRejected == is_running

\* the text of an input field: an integer literal, or text int() rejects
Text(n) == [isInt |-> TRUE, val |-> n]
Garbage == [isInt |-> FALSE, val |-> 0]

\* the four input fields read at lines 128-131
Fields(interval, max_samples, oversampling, channel_range) ==
    [sample_interval |-> interval, max_samples |-> max_samples,
     oversampling |-> oversampling, channel_range |-> channel_range]

\* what the user has typed: every valid choice, and the valid choice with one
\* field replaced by text that is not an integer, by zero or by a negative number
Inputs ==
    {Fields(Text(i), Text(m), Text(1), Text(9)) :
        i \in IntervalChoices, m \in MaxSamplesChoices}
    \cup {Fields(Garbage, Text(2), Text(1), Text(9)),
          Fields(Text(0), Text(2), Text(1), Text(9)),
          Fields(Text(100000), Garbage, Text(1), Text(9)),
          Fields(Text(100000), Text(2), Text(0), Text(9)),
          Fields(Text(100000), Text(2), Text(1), Text(0 - 1))}

\* lines 127-134: one of the four int() calls raises ValueError
ParseFails(inp) ==
    ~(/\ inp.sample_interval.isInt /\ inp.max_samples.isInt
      /\ inp.oversampling.isInt /\ inp.channel_range.isInt)

\* MainWindow.start_acquisition (Start button) with the texts of the fields
start_acquisition(inp) ==
    /\ mainpc = "loop" /\ ~aborted
    /\ sheet' = NoFile
    /\ IF StartRejected
       THEN /\ msg' = "Acquisition is already running."
            /\ UNCHANGED <<ctl, mainpc, queue, workers, device, aborted, delivered>>
       ELSE IF ParseFails(inp)
       THEN \* line 128 has assigned the interval when a later field fails
            /\ msg' = "Invalid input. Please enter integers."
            /\ sample_interval_us' = IF inp.sample_interval.isInt
                                     THEN inp.sample_interval.val
                                     ELSE sample_interval_us
            /\ UNCHANGED <<is_running, all_data, total_samples_acquired, deque_size,
                           time_deque, chA_deque, chB_deque, pico_worker, labels,
                           mainpc, queue, workers, device, aborted, delivered>>
       ELSE IF inp.sample_interval.val = 0
       THEN \* lines 137-141 reset the data, line 142 raises ZeroDivisionError
            /\ sample_interval_us' = 0
            /\ all_data' = <<>>
            /\ total_samples_acquired' = 0
            /\ chA_deque' = <<>>
            /\ chB_deque' = <<>>
            /\ time_deque' = <<>>
            /\ delivered' = <<>>
            /\ msg' = "none"
            /\ aborted' \in BOOLEAN
            /\ UNCHANGED <<is_running, deque_size, pico_worker, labels,
                           mainpc, queue, workers, device>>
       ELSE /\ pico_worker < MaxRuns
            /\ sample_interval_us' = inp.sample_interval.val
            /\ all_data' = <<>>
            /\ total_samples_acquired' = 0
            /\ deque_size' = DequeSize(inp.sample_interval.val)
            /\ chA_deque' = <<>>
            /\ chB_deque' = <<>>
            /\ time_deque' = <<>>
            /\ pico_worker' = pico_worker + 1
            /\ workers' = [Released(workers, pico_worker)
                              EXCEPT ![pico_worker + 1] =
                                  NewWorker(inp.sample_interval.val, inp.max_samples.val)]
            /\ is_running' = TRUE
            /\ delivered' = <<>>
            /\ queue' \in {queue, Forgotten(queue, pico_worker)}
            /\ msg' = "none"
            /\ UNCHANGED <<labels, mainpc, device, aborted>>

\* mutant: stop_acquisition also tears the device down itself
StopWorkers_Teardown(ws, cur) ==
    IF cur = 0 THEN ws
    ELSE [ws EXCEPT ![cur] = [disconnect(stop(@)) EXCEPT !.quit = TRUE]]

\* stop_acquisition lines 172-177: worker.stop(), thread.quit(); the GUI
\* thread then blocks in thread.wait()
StopWorkers(ws, cur) ==
    IF cur = 0 THEN ws
    ELSE [ws EXCEPT ![cur] = [stop(@) EXCEPT !.quit = TRUE]]

\* mutant: stop_acquisition does not wait for the thread
WaitReturns_NoWait(ws, cur) == TRUE

\* QThread.wait() returns once the thread has finished (at once without a thread)
WaitReturns(ws, cur) == IF cur = 0 THEN TRUE ELSE ws[cur].pc = "exited"

\* a call of MainWindow.stop_acquisition (Stop button)
stop_acquisition ==
    /\ mainpc = "loop" /\ ~aborted
    /\ workers' = StopWorkers(workers, pico_worker)
    /\ mainpc' = "wait"
    /\ sheet' = NoFile
    /\ msg' = "none"
    /\ UNCHANGED <<ctl, queue, device, aborted, delivered>>

\* stop_acquisition lines 178-183: wait() returns, the state becomes idle
stop_acquisition_return ==
    /\ mainpc = "wait" /\ ~aborted
    /\ WaitReturns(workers, pico_worker)
    /\ is_running' = FALSE
    /\ mainpc' = "loop"
    /\ UNCHANGED <<all_data, total_samples_acquired, sample_interval_us, deque_size,
                   time_deque, chA_deque, chB_deque, pico_worker, labels,
                   msg, queue, workers, device, aborted, delivered, sheet>>

\* mutant: the loop over the batch stops one sample short
NewRows_OffByOne(total, interval_us, time_data, chA_data, chB_data) ==
    [i \in 1..(Len(time_data) - 1) |->
        <<time_data[i] + total * interval_us, chA_data[i], chB_data[i]>>]

\* update_plot lines 197-200: the rows appended to all_data
NewRows(total, interval_us, time_data, chA_data, chB_data) ==
    [i \in 1..Len(time_data) |->
        <<time_data[i] + total * interval_us, chA_data[i], chB_data[i]>>]

\* mutant: channel B is not appended to its deque
ExtendDeques_NoChB(t, a, b, d, maxlen) ==
    <<DequeExtend(t, d.time, maxlen), DequeExtend(a, d.chA, maxlen), b>>

\* update_plot lines 203-205: the three deques after the extends
ExtendDeques(t, a, b, d, maxlen) ==
    <<DequeExtend(t, d.time, maxlen), DequeExtend(a, d.chA, maxlen),
      DequeExtend(b, d.chB, maxlen)>>

\* MainWindow.update_plot, delivered from the queue
update_plot ==
    /\ mainpc = "loop" /\ ~aborted
    /\ queue # <<>> /\ Head(queue).kind = "data"
    /\ LET d == Head(queue)
           n_samples == Len(d.time)
           ext == ExtendDeques(time_deque, chA_deque, chB_deque, d, deque_size)
           td == ext[1]
           ad == ext[2]
           bd == ext[3]
       IN /\ queue' = Tail(queue)
          /\ IF n_samples > 0
             THEN /\ all_data' = all_data \o
                        NewRows(total_samples_acquired, sample_interval_us, d.time, d.chA, d.chB)
                  /\ time_deque' = td
                  /\ chA_deque' = ad
                  /\ chB_deque' = bd
                  /\ delivered' = delivered \o [i \in 1..n_samples |-> <<d.time[i], d.chA[i], d.chB[i]>>]
                  /\ IF td = <<>> \/ ad = <<>> \/ bd = <<>>
                     THEN \* lines 213-215: deque[-1] raises IndexError
                          /\ aborted' \in BOOLEAN
                          /\ UNCHANGED <<total_samples_acquired, labels>>
                     ELSE /\ total_samples_acquired' = total_samples_acquired + n_samples
                          /\ labels' = [time |-> td[Len(td)], chA |-> ad[Len(ad)],
                                        chB |-> bd[Len(bd)],
                                        samples |-> total_samples_acquired + n_samples]
                          /\ UNCHANGED aborted
             ELSE UNCHANGED <<all_data, time_deque, chA_deque, chB_deque, delivered,
                              total_samples_acquired, labels, aborted>>
          /\ UNCHANGED <<is_running, sample_interval_us, deque_size, pico_worker,
                         mainpc, workers, device>>
          /\ msg' = "none"
          /\ sheet' = NoFile

\* DataSaver.save_to_excel line 34: the header row
SheetHeader == <<"Time (ms)", "Voltage Channel A (mV)", "Voltage Channel B (mV)">>

\* DataSaver.save_to_excel: the workbook built from plot_data, header first,
\* then one row per tuple in order
Workbook(plot_data) ==
    [header |-> SheetHeader, rows |-> [i \in 1..Len(plot_data) |-> plot_data[i]]]

\* mutant: the is_running guard is missing
ExportRefusal_NoRunningGuard ==
    IF all_data = <<>> THEN "No data to save." ELSE "None"

\* save_data lines 228-234: the two guards, None when the export goes on
ExportRefusal ==
    IF is_running THEN "Please stop acquisition before saving."
    ELSE IF all_data = <<>> THEN "No data to save."
    ELSE "None"

\* mutant: a successful export empties the session log
save_data_ClearsLog ==
    /\ mainpc = "loop" /\ ~aborted
    /\ IF ExportRefusal # "None"
       THEN /\ msg' = ExportRefusal
            /\ sheet' = NoFile
            /\ UNCHANGED all_data
       ELSE /\ msg' = "Data saved successfully!"
            /\ sheet' = Workbook(all_data)
            /\ all_data' = <<>>
    /\ UNCHANGED <<is_running, total_samples_acquired, sample_interval_us, deque_size,
                   time_deque, chA_deque, chB_deque, pico_worker, labels,
                   mainpc, queue, workers, device, aborted, delivered>>

\* MainWindow.save_data (Save button)
save_data ==
    /\ mainpc = "loop" /\ ~aborted
    /\ IF ExportRefusal # "None"
       THEN /\ msg' = ExportRefusal
            /\ sheet' = NoFile
       ELSE /\ msg' = "Data saved successfully!"
            /\ sheet' = Workbook(all_data)
    /\ UNCHANGED <<ctl, mainpc, queue, workers, device, aborted, delivered>>

\* MainWindow.on_acquisition_finished: dialog, then stop_acquisition
on_acquisition_finished ==
    /\ mainpc = "loop" /\ ~aborted
    /\ queue # <<>> /\ Head(queue).kind = "finished"
    /\ queue' = Tail(queue)
    /\ msg' = "Data acquisition finished."
    /\ workers' = StopWorkers(workers, pico_worker)
    /\ mainpc' = "wait"
    /\ sheet' = NoFile
    /\ UNCHANGED <<ctl, device, aborted, delivered>>

\* MainWindow.on_error: dialog with the message, then stop_acquisition
on_error ==
    /\ mainpc = "loop" /\ ~aborted
    /\ queue # <<>> /\ Head(queue).kind = "error"
    /\ queue' = Tail(queue)
    /\ msg' = Head(queue).message
    /\ workers' = StopWorkers(workers, pico_worker)
    /\ mainpc' = "wait"
    /\ sheet' = NoFile
    /\ UNCHANGED <<ctl, device, aborted, delivered>>

\* -------------------------------------------------------- producer
\* everything but the worker objects, the signal queue and the device
mainSide == <<ctl, msg, mainpc, delivered, sheet>>

\* PicoScopeWorker.connect, called first in run()
connect(r) ==
    /\ ~aborted /\ workers[r].pc = "run"
    /\ \/ \* open_unit and both set_channel calls succeed
          /\ workers' = [workers EXCEPT ![r] =
                [@ EXCEPT !.handle = TRUE, !.devOpen = TRUE, !.pc = "start_streaming"]]
          /\ UNCHANGED queue
       \/ \* open_unit raises: no handle
          /\ queue' = Emit(queue, Sig("error", r, "connect", <<>>, <<>>, <<>>))
          /\ workers' = [workers EXCEPT ![r] =
                [disconnect(Logged(@, "error")) EXCEPT !.connectFailed = TRUE,
                                                      !.pc = "connect_failed"]]
       \/ \* set_channel raises: the unit is open
          /\ queue' = Emit(queue, Sig("error", r, "connect", <<>>, <<>>, <<>>))
          /\ workers' = [workers EXCEPT ![r] =
                [disconnect(Logged([@ EXCEPT !.handle = TRUE, !.devOpen = TRUE], "error"))
                    EXCEPT !.connectFailed = TRUE, !.pc = "connect_failed"]]
    /\ UNCHANGED <<mainSide, device, aborted>>

\* run() lines 122-124: connect() returned False
run_connect_failed(r) ==
    /\ ~aborted /\ workers[r].pc = "connect_failed"
    /\ queue' = Emit(queue, Sig("finished", r, "", <<>>, <<>>, <<>>))
    /\ workers' = [workers EXCEPT ![r] = [Logged(@, "finished") EXCEPT !.pc = "exec"]]
    /\ UNCHANGED <<mainSide, device, aborted>>

\* PicoScopeWorker.start_streaming, called from run() line 126
start_streaming(r) ==
    /\ ~aborted /\ workers[r].pc = "start_streaming"
    /\ IF workers[r].handle
       THEN \/ \* ps2000_run_streaming accepted
               /\ workers' = [workers EXCEPT ![r] =
                     [@ EXCEPT !.streaming = TRUE, !.pc = "loop"]]
               /\ UNCHANGED <<queue, aborted>>
            \/ \* rejected: assert_pico2000_ok raises out of run()
               /\ workers' = [workers EXCEPT ![r] =
                     [Raised(@) EXCEPT !.streamFailed = TRUE]]
               /\ aborted' \in BOOLEAN
               /\ UNCHANGED queue
       ELSE /\ queue' = Emit(queue, Sig("error", r, "not connected", <<>>, <<>>, <<>>))
            /\ workers' = [workers EXCEPT ![r] = [Logged(@, "error") EXCEPT !.pc = "loop"]]
            /\ UNCHANGED aborted
    /\ UNCHANGED <<mainSide, device>>

\* run() line 128: the test of `while self.running`
run_loop(r) ==
    /\ ~aborted /\ workers[r].pc = "loop"
    /\ IF workers[r].running
       THEN /\ nextFetch <= MaxFetches
            /\ workers' = [workers EXCEPT ![r] = [@ EXCEPT !.pc = "get_data"]]
       ELSE workers' = [workers EXCEPT ![r] = [@ EXCEPT !.pc = "disconnect"]]
    /\ UNCHANGED <<mainSide, queue, device, aborted>>

\* PicoScopeWorker.get_data and the rest of the loop body (lines 129-132)
get_data(r) ==
    /\ ~aborted /\ workers[r].pc = "get_data"
    /\ IF ~workers[r].handle
       THEN \* returns three values, the unpacking at line 129 raises
            /\ workers' = [workers EXCEPT ![r] = Raised(@)]
            /\ aborted' \in BOOLEAN
            /\ UNCHANGED <<queue, device>>
       ELSE \/ \E n_samples \in 0..workers[r].max_samples :
                 /\ workers' = [workers EXCEPT ![r] =
                       [@ EXCEPT !.nFetch = @ + 1, !.pc = "loop",
                                 !.nData = IF n_samples > 0 THEN @ + 1 ELSE @]]
                 /\ queue' = IF n_samples > 0
                             THEN Emit(queue, Sig("data", r, "",
                                        SeqOf(workers[r].sample_interval_us, n_samples),
                                        Serials(nextSample, n_samples),
                                        Neg(Serials(nextSample, n_samples))))
                             ELSE queue
                 /\ nextSample' = nextSample + n_samples
                 /\ nextFetch' = nextFetch + 1
                 /\ UNCHANGED aborted
            \/ \* ps2000_get_values raises: error signal, stop(), three values
               \* returned, the unpacking at line 129 raises
               /\ queue' = Emit(queue, Sig("error", r, "Error getting data", <<>>, <<>>, <<>>))
               /\ workers' = [workers EXCEPT ![r] =
                     [Raised(stop(Logged(@, "error")))
                         EXCEPT !.nFetch = @ + 1, !.fetchFailed = TRUE]]
               /\ aborted' \in BOOLEAN
               /\ nextFetch' = nextFetch + 1
               /\ UNCHANGED nextSample
    /\ UNCHANGED mainSide

\* run() lines 134-135: the loop has ended
run_exit(r) ==
    /\ ~aborted /\ workers[r].pc = "disconnect"
    /\ queue' = Emit(queue, Sig("finished", r, "", <<>>, <<>>, <<>>))
    /\ workers' = [workers EXCEPT ![r] =
          [Logged(disconnect(@), "finished") EXCEPT !.pc = "exec"]]
    /\ UNCHANGED <<mainSide, device, aborted>>

\* QThread.exec(): the thread's event loop ends once quit() was called
thread_exit(r) ==
    /\ ~aborted /\ workers[r].pc = "exec" /\ workers[r].quit
    /\ workers' = [workers EXCEPT ![r] = [@ EXCEPT !.pc = "exited"]]
    /\ UNCHANGED <<mainSide, queue, device, aborted>>

Next ==
    \/ \E inp \in Inputs : start_acquisition(inp)
    \/ stop_acquisition
    \/ save_data
    \/ stop_acquisition_return
    \/ update_plot
    \/ on_acquisition_finished
    \/ on_error
    \/ \E r \in Runs : connect(r)
    \/ \E r \in Runs : run_connect_failed(r)
    \/ \E r \in Runs : start_streaming(r)
    \/ \E r \in Runs : run_loop(r)
    \/ \E r \in Runs : get_data(r)
    \/ \E r \in Runs : run_exit(r)
    \/ \E r \in Runs : thread_exit(r)

Spec == Init /\ [][Next]_vars

\* ------------------------------------------------------ properties
Col(s, k) == [i \in 1..Len(s) |-> s[i][k]]

\* the last min(Len(ins), cap) elements of ins, written out by position
HoldsLast(dq, ins, cap) ==
    IF Len(ins) >= cap
    THEN /\ Len(dq) = cap
         /\ \A i \in 1..cap : dq[i] = ins[Len(ins) - cap + i]
    ELSE dq = ins

\* run() has begun and has not yet returned or raised
LoopAlive(w) == w.pc \notin {"none", "exec", "exited"}

\* C1: the session log holds exactly the samples handed to update_plot since
\* the last start, channel A and channel B values in arrival order, one row
\* per sample.
C1_Conservation ==
    /\ Len(all_data) = Len(delivered)
    /\ Col(all_data, 2) = Col(delivered, 2)
    /\ Col(all_data, 3) = Col(delivered, 3)

C1_Witness == Len(all_data) = 4 /\ Len(queue) = 0

\* C2: each ring buffer holds at most deque_size elements: the last
\* deque_size samples inserted since the last start when at least that many
\* were inserted, all of them otherwise.
C2_BoundedWindow ==
    /\ Len(time_deque) <= deque_size
    /\ Len(chA_deque) <= deque_size
    /\ Len(chB_deque) <= deque_size
    /\ HoldsLast(time_deque, Col(delivered, 1), deque_size)
    /\ HoldsLast(chA_deque, Col(delivered, 2), deque_size)
    /\ HoldsLast(chB_deque, Col(delivered, 3), deque_size)

C2_Witness == deque_size = 2 /\ Len(delivered) = 3 /\ Len(chA_deque) = 2

\* C3: the time, channel A and channel B ring buffers have the same length
\* in every state.
C3_EqualLengths ==
    /\ Len(time_deque) = Len(chA_deque)
    /\ Len(chA_deque) = Len(chB_deque)

C3_Witness == Len(time_deque) = 1 /\ Len(chB_deque) = 1 /\ is_running

\* C4: start called while running is rejected with the warning and leaves the
\* session log, the ring buffers, the sample counter and the workers as they
\* were.
C4_StartWhileRunningRejected ==
    [][(is_running /\ \E inp \in Inputs : start_acquisition(inp))
        => /\ msg' = "Acquisition is already running."
           /\ UNCHANGED <<ctl, workers, queue, mainpc>>]_vars

C4_Witness ==
    /\ is_running /\ msg = "Acquisition is already running."
    /\ all_data # <<>> /\ pico_worker = 1

\* C5: at most one worker is inside run() at any time.
C5_AtMostOneLoop == Cardinality({r \in Runs : LoopAlive(workers[r])}) <= 1

C5_Witness == pico_worker = 2 /\ workers[2].pc = "get_data"

\* C6: every stop ends idle, and a stop called while idle, in particular a
\* second stop right after a first one, changes nothing of the controller,
\* the workers, the device or the pending signals: no second teardown.
C6_StopWhenIdleIsNoOp ==
    [][/\ stop_acquisition_return => ~is_running'
       /\ (~is_running /\ (stop_acquisition \/ stop_acquisition_return))
            => UNCHANGED <<ctl, workers, queue, device>>]_vars

C6_Witness ==
    /\ ~is_running /\ mainpc = "wait" /\ pico_worker # 0
    /\ workers[pico_worker].nTeardown = 1 /\ all_data # <<>>

\* C7: once stop has returned and the controller is idle, no batch is
\* processed by update_plot.
C7_StopIsBarrier == [][~(~is_running /\ update_plot)]_vars

\* C8: a worker whose run() has ended, on whatever path, has emitted the
\* finished signal.
C8_FinishedOnEveryExit ==
    \A r \in Runs :
        workers[r].pc \in {"exec", "exited"} =>
            \E i \in 1..Len(workers[r].log) : workers[r].log[i] = "finished"

\* C9: after a failed fetch whose error signal has been handled, the
\* controller is idle, the message was shown and the device is stopped and
\* closed.
C9_FetchErrorRecovery ==
    \A r \in Runs :
        (/\ workers[r].fetchFailed /\ r = pico_worker /\ mainpc = "loop"
         /\ \A i \in 1..Len(queue) : ~(queue[i].run = r /\ queue[i].kind = "error"))
        => /\ ~is_running
           /\ ~workers[r].devOpen
           /\ ~workers[r].streaming

\* C10: a run whose connect failed emits one error signal then the finished
\* signal and nothing else, never starts streaming or fetches, leaves the
\* device closed, and once its signals are handled the controller is idle
\* with an empty session log and empty ring buffers.
C10_ConnectFailure ==
    \A r \in Runs :
        (workers[r].connectFailed /\ r = pico_worker) =>
            /\ workers[r].nFetch = 0 /\ workers[r].nData = 0
            /\ ~workers[r].streaming /\ ~workers[r].devOpen
            /\ workers[r].pc \in {"exec", "exited"} =>
                  [i \in 1..Len(workers[r].log) |-> workers[r].log[i]] \in
                      {<<"error", "finished">>, <<"error", "teardown", "finished">>}
            /\ (mainpc = "loop" /\ workers[r].pc = "exited"
                /\ \A i \in 1..Len(queue) : queue[i].run # r)
               => /\ ~is_running
                  /\ all_data = <<>>
                  /\ time_deque = <<>> /\ chA_deque = <<>> /\ chB_deque = <<>>

\* C11: an export while running is refused with the stop-first warning, an
\* export while idle with an empty session log is refused with the no-data
\* notice, and in both cases the serializer is not called; otherwise the
\* workbook is the header row followed by every row of the session log, in
\* order.
C11_ExportGuards ==
    [][save_data =>
        /\ is_running =>
              (msg' = "Please stop acquisition before saving." /\ sheet' = NoFile)
        /\ (~is_running /\ all_data = <<>>) =>
              (msg' = "No data to save." /\ sheet' = NoFile)
        /\ (~is_running /\ all_data # <<>>) =>
              /\ sheet'.header = SheetHeader
              /\ Len(sheet'.rows) = Len(all_data)
              /\ \A i \in 1..Len(all_data) : sheet'.rows[i] = all_data[i]]_vars

C11_Witness == sheet.header = SheetHeader /\ Len(sheet.rows) = 3

\* C12: an export, refused or not, changes nothing of the controller (session
\* log, ring buffers, sample counter, acquisition state), the workers, the
\* pending signals or the device.
C12_ExportReadOnly ==
    [][save_data => UNCHANGED <<ctl, mainpc, workers, queue, device, delivered>>]_vars

C12_Witness ==
    /\ msg = "Data saved successfully!" /\ sheet.rows = all_data
    /\ total_samples_acquired = Len(all_data) /\ chA_deque # <<>> /\ ~is_running

\* C13: the time offset of every row of the session log is its 0-based index
\* in the session multiplied by the configured sample interval (a first batch
\* of three rows has the offsets 0, 1 and 2 intervals).
C13_TimeOffsets ==
    \A i \in 1..Len(all_data) : all_data[i][1] = (i - 1) * sample_interval_us

\* every field is an integer and is positive
ValidConfig(inp) ==
    /\ ~ParseFails(inp)
    /\ inp.sample_interval.val > 0 /\ inp.max_samples.val > 0
    /\ inp.oversampling.val > 0 /\ inp.channel_range.val > 0

\* C14: a start from idle with a field that is not an integer or not positive
\* is rejected with the invalid-input message inside the call: no worker is
\* created, nothing is queued, and the session log, the ring buffers, the
\* sample counter and the acquisition state stay as they were.
C14_ConfigValidation ==
    [][\A inp \in Inputs :
          (~is_running /\ ~ValidConfig(inp) /\ start_acquisition(inp)) =>
              /\ msg' = "Invalid input. Please enter integers."
              /\ ~aborted'
              /\ UNCHANGED <<is_running, all_data, total_samples_acquired, time_deque,
                             chA_deque, chB_deque, pico_worker, workers, queue>>]_vars

\* C15: after update_plot has processed a non-empty batch, the labels show
\* the time offset, channel A and channel B value of the last row of the
\* session log, and the sample count shown is the length of the session log.
C15_LatestSample ==
    [][(update_plot /\ Head(queue).time # <<>>) =>
          LET last == all_data'[Len(all_data')]
          IN /\ labels'.time = last[1]
             /\ labels'.chA = last[2]
             /\ labels'.chB = last[3]
             /\ labels'.samples = Len(all_data')
             /\ total_samples_acquired' = Len(all_data')]_vars

\* C16: no worker tears the device down twice, and a worker whose connect
\* succeeded and whose run() has ended has torn the device down exactly once,
\* before the finished signal, and has left the device closed.
C16_TeardownOnce ==
    \A r \in Runs :
        LET w == workers[r]
        IN /\ w.nTeardown <= 1
           /\ (w.handle /\ ~w.connectFailed /\ w.pc \in {"exec", "exited"}) =>
                 /\ w.nTeardown = 1
                 /\ ~w.devOpen /\ ~w.streaming
                 /\ \A i \in 1..Len(w.log) :
                       w.log[i] = "finished" =>
                           \E j \in 1..(i - 1) : w.log[j] = "teardown"

\* C17: a worker whose start_streaming was rejected by the driver has, once
\* run() has ended, emitted the error signal and then the finished signal,
\* and has issued no fetch and emitted no batch.
C17_StartStreamingFailure ==
    \A r \in Runs :
        LET w == workers[r]
        IN (w.streamFailed /\ w.pc \in {"exec", "exited"}) =>
              /\ w.nFetch = 0 /\ w.nData = 0
              /\ \E i, j \in 1..Len(w.log) :
                    i < j /\ w.log[i] = "error" /\ w.log[j] = "finished"

\* C18: every error signal of a worker that holds a device handle is emitted
\* after the teardown of that device, and run() does not end by an exception
\* after a rejected start_streaming or a failed fetch.
C18_TeardownBeforeError ==
    \A r \in Runs :
        LET w == workers[r]
        IN /\ w.handle =>
                 \A i \in 1..Len(w.log) :
                     w.log[i] = "error" => \E j \in 1..(i - 1) : w.log[j] = "teardown"
           /\ ((w.streamFailed \/ w.fetchFailed) /\ w.pc \in {"exec", "exited"}) =>
                 w.log # <<>> /\ w.log[Len(w.log)] = "finished"

\* C19: once stop_acquisition has stopped a worker, the worker starts no new
\* fetch: only a fetch that was already in flight completes (at most one more
\* batch), none at all when the loop had not begun, and once its run() has
\* ended the worker has torn the device down.
C19_BoundedStop ==
    [][\A r \in Runs :
          LET w == workers[r]
              v == workers'[r]
          IN /\ (w.quit /\ v.quit /\ w.pc # "get_data") =>
                   (v.pc # "get_data" /\ v.nFetch = w.nFetch /\ v.nData = w.nData)
             /\ (w.quit /\ v.quit) => (v.nFetch <= w.nFetch + 1 /\ v.nData <= w.nData + 1)
             /\ (v.quit /\ v.handle /\ ~v.connectFailed /\ v.pc \in {"exec", "exited"}) =>
                   v.nTeardown = 1]_vars

\* C20: a finished or error signal sent by an earlier worker than the current
\* one does not stop the current worker, and a batch sent by an earlier
\* worker is not appended to the session log of the current run.
C20_RunIsolation ==
    [][(queue # <<>> /\ Head(queue).run # pico_worker) =>
          /\ (on_acquisition_finished \/ on_error) => UNCHANGED <<workers, mainpc>>
          /\ update_plot => UNCHANGED all_data]_vars

====
